---- MODULE Spec2Model ----
(***************************************************************************)
(* Model of the Dakora Python client (dakora_client/client.py) and its     *)
(* prompts sub-client (dakora_client/prompts.py).                          *)
(*                                                                         *)
(* Python strings are sequences of one-character strings, so that          *)
(* startswith, lower and rstrip are computed on the characters.  Python's  *)
(* None is the one-element tuple <<"None">>, which no string equals.       *)
(*                                                                         *)
(* The client runs on one asyncio event loop: the code between two awaits  *)
(* that suspend (the wait for an HTTP response) is one atomic action.      *)
(* Assertions are enabled (the interpreter's default).                     *)
(***************************************************************************)
EXTENDS Naturals, Sequences, FiniteSets

VARIABLES
    client,           \* the Dakora object: __api_key, _base_url, _project_id, headers of __http
    twin,             \* a second Dakora object given the same calls with another key value
    init_project_id,  \* the project_id argument __init__ received
    pc,               \* per task: "idle", "ctx_wait" (line 98), "op_wait" (prompts.py 34/70/133/158)
    op,               \* per task: the prompts operation it runs
    reqs,             \* per task: paths of the requests the current call passed to the transport
    resps,            \* per task: status codes of the responses the current call received
    data,             \* per task: data["project_id"] of the context response (line 100)
    outcome,          \* per task: how the last call ended
    call,             \* the request/get/post/put/delete call the last step made (NoCall if
                      \* none): what it raised and the request it passed to __http.request
    ncalls,           \* number of calls started
    nctx              \* number of GET /api/me/context requests passed to the transport

vars == <<client, twin, init_project_id, pc, op, reqs, resps, data, outcome,
          call, ncalls, nctx>>

\* ---------------------------------------------------------------- bounds

NumTasks == 2
MaxCalls == 2

Tasks == 1..NumTasks

\* ------------------------------------------------------- Python values

None == <<"None">>
Missing == <<"Missing">>       \* the key is absent from a JSON object

Truthy(x) == x # None /\ x # <<>>

PyOr(a, b) == IF Truthy(a) THEN a ELSE b

StartsWith(s, p) == Len(s) >= Len(p) /\ SubSeq(s, 1, Len(p)) = p

StartsWithAny(s, ps) == \E p \in ps : StartsWith(s, p)

RECURSIVE RStrip(_, _)
RStrip(s, c) ==
    IF s # <<>> /\ s[Len(s)] = c THEN RStrip(SubSeq(s, 1, Len(s) - 1), c) ELSE s

UpperAlpha == <<"A","B","C","D","E","F","G","H","I","J","K","L","M",
                "N","O","P","Q","R","S","T","U","V","W","X","Y","Z">>
LowerAlpha == <<"a","b","c","d","e","f","g","h","i","j","k","l","m",
                "n","o","p","q","r","s","t","u","v","w","x","y","z">>

\* str.lower on one character: the lowercase letter of an uppercase one.
CharLower ==
    [ c \in { UpperAlpha[i] : i \in DOMAIN UpperAlpha } |->
        LowerAlpha[CHOOSE i \in DOMAIN UpperAlpha : UpperAlpha[i] = c] ]

LowerChar(c) == IF c \in DOMAIN CharLower THEN CharLower[c] ELSE c

Lower(s) == [i \in 1..Len(s) |-> LowerChar(s[i])]

\* ----------------------------------------------------- string literals

XApiKey == <<"X","-","A","P","I","-","K","e","y">>
x_api_key == <<"x","-","a","p","i","-","k","e","y">>
DefaultBaseUrl ==
    <<"h","t","t","p","s",":","/","/","a","p","i",".","d","a","k","o","r","a",".","i","o">>
ContextPath == <<"/","a","p","i","/","m","e","/","c","o","n","t","e","x","t">>
ProjectsPrefix == <<"/","a","p","i","/","p","r","o","j","e","c","t","s","/">>
PromptsSuffix == <<"/","p","r","o","m","p","t","s">>
RenderSuffix == <<"/","r","e","n","d","e","r">>
AbsolutePrefixes ==
    { <<"h","t","t","p",":","/","/">>, <<"h","t","t","p","s",":","/","/">>, <<"/","/">> }

\* ------------------------------------------------ headers (dict, httpx)

\* A dict[str, str] is a function from names to values.
EmptyDict == [k \in {} |-> <<>>]

DictSet(d, k, v) == [n \in (DOMAIN d) \cup {k} |-> IF n = k THEN v ELSE d[n]]

DictFilter(d, keep) == [n \in keep |-> d[n]]

\* httpx.Headers is a case-insensitive multi-dict: a set of <<lowercased name, value>>.
Headers(d) == { <<Lower(k), d[k]>> : k \in DOMAIN d }

HeadersPop(h, name) == { e \in h : e[1] # Lower(name) }

HeadersSet(h, name, v) == HeadersPop(h, name) \cup { <<Lower(name), v>> }

\* Headers.update: the keys of the other replace those of self.
HeadersUpdate(h, other) ==
    { e \in h : ~ \E o \in other : o[1] = e[1] } \cup other

HeaderValues(h, name) == { e[2] : e \in { x \in h : x[1] = Lower(name) } }

\* ------------------------------------------------------ client.py: Dakora

\* Dakora.__build_default_headers
__build_default_headers(api_key) ==
    IF Truthy(api_key) THEN DictSet(EmptyDict, XApiKey, api_key) ELSE EmptyDict

\* Dakora.__init__; env_key and env_url are os.getenv of DAKORA_API_KEY and DAKORA_BASE_URL.
Dakora(api_key, base_url, project_id, env_key, env_url) ==
    LET api_key_value == PyOr(api_key, env_key)
    IN  [ __api_key   |-> api_key_value,
          _base_url   |-> RStrip(PyOr(PyOr(base_url, env_url), DefaultBaseUrl), "/"),
          http_headers |-> Headers(__build_default_headers(api_key_value)),
          _project_id |-> project_id ]

\* Dakora.update_api_key
update_api_key(c, api_key) ==
    [c EXCEPT !.__api_key = api_key,
              !.http_headers = IF Truthy(api_key)
                               THEN HeadersSet(c.http_headers, XApiKey, api_key)
                               ELSE HeadersPop(c.http_headers, XApiKey)]

\* Dakora.has_api_key
MutHasApiKey(c) == c.__api_key

has_api_key(c) == c.__api_key # None

\* Dakora.base_url (property)
base_url(c) == c._base_url

\* Dakora.project_id (property)
project_id(c) == c._project_id

\* The path test of Dakora._request (line 111).
MutIsAbsolute(path) ==
    StartsWithAny(path, { p \in AbsolutePrefixes : p # <<"/","/">> })

IsAbsolute(path) == StartsWithAny(path, AbsolutePrefixes)

\* Keyword arguments of a call: a function whose domain holds "headers" when the
\* caller passes a headers dict (headers=None is the same as passing none, line 113).
NoKwargs == [k \in {} |-> EmptyDict]

WithHeaders(d) == [k \in {"headers"} |-> d]

HasHeaders(kwargs) == "headers" \in DOMAIN kwargs

\* The header sanitising of Dakora._request (lines 115-117); headers is a dict.
MutSanitize(c, headers) ==
    LET sanitized == DictFilter(headers, { k \in DOMAIN headers : k # x_api_key })
    IN  IF Truthy(c.__api_key) THEN DictSet(sanitized, XApiKey, c.__api_key) ELSE sanitized

Sanitize(c, headers) ==
    LET sanitized == DictFilter(headers, { k \in DOMAIN headers : Lower(k) # x_api_key })
    IN  IF Truthy(c.__api_key) THEN DictSet(sanitized, XApiKey, c.__api_key) ELSE sanitized

\* httpx.AsyncClient.request as called on line 119: the client's headers, updated
\* with the headers of the call.
HttpRequest(c, method, path, kwargs) ==
    [ method  |-> method,
      path    |-> path,
      headers |-> IF HasHeaders(kwargs)
                  THEN HeadersUpdate(c.http_headers, Headers(kwargs["headers"]))
                  ELSE c.http_headers ]

\* Dakora._request: what it raises and the request it passes to the transport.
_request(c, method, path, kwargs) ==
    IF IsAbsolute(path)
    THEN [ raised |-> "ValueError" ]
    ELSE [ raised |-> "none",
           sent   |-> HttpRequest(c, method, path,
                                  IF HasHeaders(kwargs)
                                  THEN WithHeaders(Sanitize(c, kwargs["headers"]))
                                  ELSE NoKwargs) ]

\* Dakora.request
request(c, method, path, kwargs) == _request(c, method, path, kwargs)

\* Dakora.get / post / put / delete
get(c, path, kwargs) == request(c, "GET", path, kwargs)

post(c, path, kwargs) == request(c, "POST", path, kwargs)

put(c, path, kwargs) == request(c, "PUT", path, kwargs)

delete(c, path, kwargs) == request(c, "DELETE", path, kwargs)

\* The test of Dakora._get_project_id, line 96.
MutNeedsFetchAlways(c) == TRUE

MutNeedsFetchFalsy(c) == ~ Truthy(c._project_id)

NeedsFetch(c) == c._project_id = None

\* The assignment of Dakora._get_project_id, line 101.
MutStoreProjectId(c, value) ==
    IF c._project_id = None THEN [c EXCEPT !._project_id = value] ELSE c

StoreProjectId(c, value) == [c EXCEPT !._project_id = value]

\* httpx.Response.raise_for_status, as used on lines 99 and prompts.py 37/73/136/161:
\* it raises HTTPStatusError on a 4xx or 5xx status.
MutRaisesForStatus(status) == FALSE

RaisesForStatus(status) == status >= 400

\* ------------------------------------------------- prompts.py: PromptsAPI

Ops == { "list", "render", "create", "get" }

\* The url and the HTTP method of each operation (lines 31, 63, 121, 155).
OpUrl(o, pid, id) ==
    CASE o = "list"   -> ProjectsPrefix \o pid \o PromptsSuffix
      [] o = "render" -> ProjectsPrefix \o pid \o PromptsSuffix \o <<"/">> \o id \o RenderSuffix
      [] o = "create" -> ProjectsPrefix \o pid \o PromptsSuffix
      [] o = "get"    -> ProjectsPrefix \o pid \o PromptsSuffix \o <<"/">> \o id

\* The request of each operation (lines 34, 70, 133, 158): no headers keyword is passed.
OpRequest(c, o, pid, id) ==
    IF o \in { "list", "get" } THEN get(c, OpUrl(o, pid, id), NoKwargs)
                               ELSE post(c, OpUrl(o, pid, id), NoKwargs)

\* ------------------------------------------------------------ inputs

KeyA == <<"d","k","a">>
KeyB == <<"d","k","b">>
KeyEnv == <<"d","k","e">>

\* The twin is given KeyB where the client is given KeyA, and the reverse.
SwapKey(k) == IF k = KeyA THEN KeyB ELSE IF k = KeyB THEN KeyA ELSE k

ApiKeyArgs == { None, <<>>, KeyA, KeyB }
EnvApiKeys == { None, KeyEnv }
BaseUrlArgs == { None, <<"h","t","t","p",":","/","/","h","/","/">> }
EnvBaseUrls == { None }
ProjectIdArgs == { None, <<>>, <<"p">> }

\* What the server may answer.
StatusCodes == { 200, 500 }
ContextBodies == { Missing, None, <<"p">>, <<"q">> }

PromptIds == { <<"g">> }
Methods == { "GET", "POST", "PUT", "DELETE" }
Wrappers == { "request", "get", "post", "put", "delete" }

\* Paths and header dicts a caller may pass to request/get/post/put/delete.
CallerPaths ==
    { <<"/","a">>,
      <<"/","/","e">>,
      <<"h","t","t","p",":","/","/","e">>,
      <<"h","t","t","p","s",":","/","/","e">>,
      <<"h","t","t","p",":","/","e">> }
Evil == <<"e","v","i","l">>
CallerKwargs ==
    { NoKwargs,
      WithHeaders(EmptyDict),
      WithHeaders(DictSet(EmptyDict, XApiKey, Evil)),
      WithHeaders(DictSet(EmptyDict, x_api_key, Evil)),
      WithHeaders(DictSet(DictSet(EmptyDict, <<"X","-","A","p","i","-","K","e","y">>, Evil),
                          <<"A">>, <<"j">>)) }

NoRequest == [ method |-> "none", path |-> <<>>, headers |-> {} ]
NoCall == [ method |-> "none", path |-> <<>>, raised |-> "none", sent |-> NoRequest ]

\* ------------------------------------------------------------- actions

\* The state after Dakora(api_key, base_url, project_id), for arguments and
\* environment variables of the given sets.
Constructed(api_keys, env_keys, urls, env_urls, pids) ==
    \E api_key \in api_keys, env_key \in env_keys, url \in urls,
       env_url \in env_urls, pid \in pids :
        /\ client = Dakora(api_key, url, pid, env_key, env_url)
        /\ twin = Dakora(SwapKey(api_key), url, pid, env_key, env_url)
        /\ init_project_id = pid
        /\ pc = [t \in Tasks |-> "idle"]
        /\ op = [t \in Tasks |-> [name |-> "none", id |-> <<>>]]
        /\ reqs = [t \in Tasks |-> <<>>]
        /\ resps = [t \in Tasks |-> <<>>]
        /\ data = [t \in Tasks |-> None]
        /\ outcome = [t \in Tasks |-> "none"]
        /\ call = NoCall
        /\ ncalls = 0
        /\ nctx = 0

Init == Constructed(ApiKeyArgs, EnvApiKeys, BaseUrlArgs, EnvBaseUrls, ProjectIdArgs)

\* A call of request/get/post/put/delete with result r (of _request): the request
\* is passed to the transport unless the call raised.
Transport(method, path, r) ==
    /\ call' = [ method |-> method, path |-> path, raised |-> r.raised,
                 sent |-> IF r.raised = "none" THEN r.sent ELSE NoRequest ]
    /\ nctx' = IF r.raised = "none" /\ r.sent.path = ContextPath THEN nctx + 1 ELSE nctx

\* Task t awaits the call with result r: it waits for the response at `wait`, or
\* its operation ends with what the call raised.
Await(t, r, wait) ==
    IF r.raised = "none"
    THEN /\ pc' = [pc EXCEPT ![t] = wait]
         /\ reqs' = [reqs EXCEPT ![t] = Append(@, r.sent.path)]
         /\ outcome' = [outcome EXCEPT ![t] = "none"]
    ELSE /\ pc' = [pc EXCEPT ![t] = "idle"]
         /\ reqs' = reqs
         /\ outcome' = [outcome EXCEPT ![t] = r.raised]

\* Task t ends its operation with outcome o, calling nothing.
Finish(t, o) ==
    /\ pc' = [pc EXCEPT ![t] = "idle"]
    /\ outcome' = [outcome EXCEPT ![t] = o]
    /\ call' = NoCall
    /\ UNCHANGED <<reqs, nctx>>

\* The operation's own request, built from the project id _get_project_id returned.
OpCall(t, c, o, id) ==
    LET r == OpRequest(c, o, c._project_id, id)
    IN  /\ Transport(IF o \in { "list", "get" } THEN "GET" ELSE "POST",
                     OpUrl(o, c._project_id, id), r)
        /\ Await(t, r, "op_wait")

\* PromptsAPI.list / render / create / get, up to the first await that suspends:
\* _get_project_id's test and request (lines 96-98), or with a project id cached
\* the operation's own request.
Start(t, o, id) ==
    /\ pc[t] = "idle"
    /\ ncalls < MaxCalls
    /\ ncalls' = ncalls + 1
    /\ op' = [op EXCEPT ![t] = [name |-> o, id |-> id]]
    /\ reqs[t] = <<>>
    /\ IF NeedsFetch(client)
       THEN LET r == get(client, ContextPath, NoKwargs)
            IN  /\ Transport("GET", ContextPath, r)
                /\ Await(t, r, "ctx_wait")
       ELSE OpCall(t, client, o, id)
    /\ UNCHANGED <<client, twin, init_project_id, resps, data>>

\* The context response arrives: _get_project_id lines 99-107, then the operation's
\* request.
ContextResponse(t, status, body) ==
    /\ pc[t] = "ctx_wait"
    /\ resps' = [resps EXCEPT ![t] = Append(@, status)]
    /\ IF RaisesForStatus(status)
       THEN /\ Finish(t, "HTTPStatusError")
            /\ UNCHANGED <<client, twin, data>>
       ELSE IF body = Missing
       THEN /\ Finish(t, "KeyError")
            /\ UNCHANGED <<client, twin, data>>
       ELSE /\ data' = [data EXCEPT ![t] = body]
            /\ client' = StoreProjectId(client, body)
            /\ twin' = StoreProjectId(twin, body)
            /\ IF client'._project_id = None
               THEN Finish(t, "AssertionError")
               ELSE OpCall(t, client', op[t].name, op[t].id)
    /\ UNCHANGED <<init_project_id, op, ncalls>>

\* The operation's response arrives: raise_for_status, then the return.
OpResponse(t, status) ==
    /\ pc[t] = "op_wait"
    /\ resps' = [resps EXCEPT ![t] = Append(@, status)]
    /\ Finish(t, IF RaisesForStatus(status) THEN "HTTPStatusError" ELSE "returned")
    /\ UNCHANGED <<client, twin, init_project_id, op, data, ncalls>>

\* The caller has the result of task t's operation; the operation's locals are gone.
Return(t) ==
    /\ pc[t] = "idle"
    /\ op[t].name # "none"
    /\ op' = [op EXCEPT ![t] = [name |-> "none", id |-> <<>>]]
    /\ reqs' = [reqs EXCEPT ![t] = <<>>]
    /\ resps' = [resps EXCEPT ![t] = <<>>]
    /\ data' = [data EXCEPT ![t] = None]
    /\ outcome' = [outcome EXCEPT ![t] = "none"]
    /\ call' = NoCall
    /\ UNCHANGED <<client, twin, init_project_id, pc, ncalls, nctx>>

\* A caller's request / get / post / put / delete; the response goes to the caller.
Call(w, m, path, kwargs) ==
    /\ ncalls < MaxCalls
    /\ ncalls' = ncalls + 1
    /\ w # "request" => m = "GET"
    /\ CASE w = "request" -> Transport(m, path, request(client, m, path, kwargs))
         [] w = "get"     -> Transport("GET", path, get(client, path, kwargs))
         [] w = "post"    -> Transport("POST", path, post(client, path, kwargs))
         [] w = "put"     -> Transport("PUT", path, put(client, path, kwargs))
         [] w = "delete"  -> Transport("DELETE", path, delete(client, path, kwargs))
    /\ UNCHANGED <<client, twin, init_project_id, pc, op, reqs, resps, data, outcome>>

\* Dakora.update_api_key
UpdateApiKey(api_key) ==
    /\ client' = update_api_key(client, api_key)
    /\ twin' = update_api_key(twin, SwapKey(api_key))
    /\ call' = NoCall
    /\ UNCHANGED <<init_project_id, pc, op, reqs, resps, data, outcome, ncalls, nctx>>

\* One caller that awaits each call before it makes the next.
MainTask == CHOOSE t \in Tasks : \A u \in Tasks : t <= u

Next ==
    \/ \E o \in Ops, id \in PromptIds : Start(MainTask, o, id)
    \/ \E status \in StatusCodes, body \in ContextBodies :
           ContextResponse(MainTask, status, body)
    \/ \E status \in StatusCodes : OpResponse(MainTask, status)
    \/ Return(MainTask)
    \/ \E w \in Wrappers, m \in Methods, path \in CallerPaths, kwargs \in CallerKwargs :
           pc[MainTask] = "idle" /\ Call(w, m, path, kwargs)
    \/ \E api_key \in ApiKeyArgs : UpdateApiKey(api_key)

Spec == Init /\ [][Next]_vars

\* Tasks of one event loop that run prompts operations on the one client.
NextConcurrent ==
    \/ \E t \in Tasks, o \in Ops, id \in PromptIds : Start(t, o, id)
    \/ \E t \in Tasks, status \in StatusCodes, body \in ContextBodies :
           ContextResponse(t, status, body)
    \/ \E t \in Tasks, status \in StatusCodes : OpResponse(t, status)
    \/ \E t \in Tasks : Return(t)

\* The prompts operations neither read nor write the key and the base url: one
\* choice of them.
InitConcurrent == Constructed({ KeyA }, { None }, { None }, { None }, ProjectIdArgs)

SpecConcurrent == InitConcurrent /\ [][NextConcurrent]_vars

\* -------------------------------------------------------------- claims

Finished(t) == pc[t] = "idle" /\ outcome[t] # "none"

ErrorStatuses == { status \in StatusCodes : status >= 400 }

\* C1 as stated: over any sequence of prompts operations on one client, at most one
\* GET /api/me/context request is ever issued.
C1_AtMostOneContextRequest == nctx <= 1

\* C1 as amended: a GET /api/me/context request is issued only while no project id
\* is cached; an operation that starts with a project id cached issues no context
\* request, leaves the cache alone and requests the url built from the cached id.
C1_CachedIdIsNotRefetched ==
    [][ /\ client._project_id # None => nctx' = nctx
        /\ \A t \in Tasks :
             (pc[t] = "idle" /\ pc'[t] # "idle" /\ client._project_id # None)
                => /\ pc'[t] = "op_wait"
                   /\ client'._project_id = client._project_id
                   /\ reqs'[t] = << OpUrl(op'[t].name, client._project_id, op'[t].id) >>
      ]_vars

\* A second operation runs on the project id the first one fetched.
C1_Witness ==
    /\ init_project_id = None
    /\ client._project_id = <<"q">>
    /\ nctx = 1
    /\ ncalls = 2
    /\ pc[MainTask] = "op_wait"
    /\ Len(reqs[MainTask]) = 1

\* C2: two clients that differ only in the value of a non-empty API key give the
\* same has_api_key(), base_url and project_id.
C2_KeyValueNotObservable ==
    (Truthy(client.__api_key) /\ Truthy(twin.__api_key))
        => /\ has_api_key(client) = has_api_key(twin)
           /\ base_url(client) = base_url(twin)
           /\ project_id(client) = project_id(twin)

\* The two clients hold different keys and have fetched a project id.
C2_Witness ==
    /\ client.__api_key = KeyB
    /\ twin.__api_key = KeyA
    /\ init_project_id = None
    /\ project_id(client) = <<"p">>
    /\ has_api_key(twin)

\* C3: every request passed to the transport carries X-API-Key equal to the stored
\* key when that key is a non-empty string, and no X-API-Key when it is None,
\* whatever headers the caller passed.
C3_RequestsCarryStoredKey ==
    call.sent # NoRequest
        => /\ Truthy(client.__api_key)
                => HeaderValues(call.sent.headers, XApiKey) = { client.__api_key }
           /\ client.__api_key = None
                => HeaderValues(call.sent.headers, XApiKey) = {}

\* A request whose caller passed its own X-Api-Key and another header is sent with
\* the stored key.
C3_Witness ==
    /\ call.sent # NoRequest
    /\ call.method = "PUT"
    /\ <<Lower(<<"A">>), <<"j">>>> \in call.sent.headers
    /\ client.__api_key = KeyB
    /\ HeaderValues(call.sent.headers, XApiKey) = { KeyB }

\* C4: a call of request/get/post/put/delete whose path begins with "http://",
\* "https://" or "//" raises ValueError, passes nothing to the transport and leaves
\* the key, the default headers and the cached project id unchanged.
C4_AbsolutePathRejected ==
    [][ ( \/ StartsWith(call'.path, <<"h","t","t","p",":","/","/">>)
          \/ StartsWith(call'.path, <<"h","t","t","p","s",":","/","/">>)
          \/ StartsWith(call'.path, <<"/","/">>) )
            => /\ call'.raised = "ValueError"
               /\ call'.sent = NoRequest
               /\ client' = client
               /\ nctx' = nctx
      ]_vars

\* A delete of a scheme-relative path was rejected.
C4_Witness ==
    /\ call.method = "DELETE"
    /\ call.path = <<"/","/","e">>
    /\ call.raised = "ValueError"
    /\ call.sent = NoRequest

\* C5 as stated: one call of a prompts operation sends exactly one HTTP request.
C5_ExactlyOneRequest == \A t \in Tasks : Finished(t) => Len(reqs[t]) = 1

\* C5 as amended: a call sends its own request, preceded by one GET /api/me/context
\* when no project id is cached: one or two requests, each answered before the
\* next is sent; a response with an error status ends the call with an HTTP-status
\* error and no request follows it.
C5_RoundTrips ==
    \A t \in Tasks :
        /\ Len(reqs[t]) <= 2
        /\ Len(resps[t]) <= Len(reqs[t])
        /\ Len(reqs[t]) <= Len(resps[t]) + 1
        /\ Len(reqs[t]) = 2 => (reqs[t][1] = ContextPath /\ reqs[t][2] # ContextPath)
        /\ \A i \in 1..Len(resps[t]) :
             resps[t][i] \in ErrorStatuses
                => /\ i = Len(reqs[t])
                   /\ pc[t] = "idle"
                   /\ outcome[t] = "HTTPStatusError"
        /\ Finished(t) => (Len(reqs[t]) >= 1 /\ Len(resps[t]) = Len(reqs[t]))
        /\ outcome[t] = "returned" => reqs[t][Len(reqs[t])] # ContextPath

\* A call fetched the project id, sent its own request and raised on its error status.
C5_Witness ==
    \E t \in Tasks :
        /\ Finished(t)
        /\ outcome[t] = "HTTPStatusError"
        /\ Len(reqs[t]) = 2
        /\ resps[t] = <<200, 500>>

\* C6: when a project_id (not None) is passed to the constructor, no prompts
\* operation requests /api/me/context and every url requested is built from that
\* project_id.
C6_ProvidedProjectIdIsUsed ==
    init_project_id # None
        => /\ nctx = 0
           /\ \A t \in Tasks : \A i \in 1..Len(reqs[t]) :
                reqs[t][i] = OpUrl(op[t].name, init_project_id, op[t].id)

\* Two operations run with the project id the constructor was given.
C6_Witness ==
    /\ init_project_id = <<>>
    /\ ncalls = 2
    /\ \E t \in Tasks : pc[t] = "op_wait" /\ op[t].name = "render"
    /\ \E t \in Tasks : Finished(t) /\ op[t].name = "get" /\ outcome[t] = "returned"

\* C7: client.project_id is non-None only when a project_id was passed to __init__,
\* and then equals it.
C7_ProjectIdOnlyIfProvided ==
    project_id(client) # None
        => (init_project_id # None /\ project_id(client) = init_project_id)

\* C8: the context response of a task is stored whatever is cached by then: after
\* each fetch completes, the cached project id is the value that fetch received.
C8_LastFetchWins ==
    [][ \A t \in Tasks :
          (pc[t] = "ctx_wait" /\ pc'[t] = "op_wait")
              => client'._project_id = data'[t]
      ]_vars

\* Two operations both requested the context before either stored it; the first to
\* complete stored "p", the second "q", and "q" is cached.
C8_Witness ==
    \E t \in Tasks, u \in Tasks :
        /\ ncalls = 2
        /\ nctx = 2
        /\ data[t] = <<"p">>
        /\ data[u] = <<"q">>
        /\ reqs[t] = << ContextPath, OpUrl(op[t].name, <<"p">>, op[t].id) >>
        /\ reqs[u] = << ContextPath, OpUrl(op[u].name, <<"q">>, op[u].id) >>
        /\ client._project_id = <<"q">>

====
